---------------------------- MODULE Spec2Model ----------------------------
(***************************************************************************)
(* Model of sprint_12_trending_youtube_rev_1.py: yearly CSV snapshots of   *)
(* trending-video metadata are discovered, normalized and appended to the  *)
(* table trending_by_time, then validated and exported.                    *)
(*                                                                         *)
(* Text is modelled as a sequence of one-character strings, so that        *)
(* pattern matching, slicing, parsing and formatting are computed and not  *)
(* assumed.                                                                *)
(***************************************************************************)
EXTENDS Integers, Sequences, FiniteSets, TLC

VARIABLES
    yrPath,     \* extract_year_from_path: the argument file_path
    yrOut,      \* extract_year_from_path: pending, or the returned value
    ppIn,       \* preprocess_data: the argument df
    ppOut,      \* preprocess_data: pending, or how the call ended
    gwIn,       \* data_already_exist: the store, the year and the injected failure
    gwOut,      \* data_already_exist: pending, or the result and the store after
    pc,         \* __main__: position of the run
    run,        \* number of the current run of the program
    exitCode,   \* exit status of the current run, Running until it ends
    argvOk,     \* whether the command line of the run parses under getopt
    pandas,     \* the build of pandas the program runs on
    dir,        \* the data directory: NoDir, or a function from names to contents
    listing,    \* entries of os.listdir not yet iterated
    cur,        \* filename, year_from_file and data of the entry being processed
    db,         \* the SQLite store: directory, table trending_by_time
    export,     \* the export artifact trending_by_time_full_export.csv
    processed_any_file,
    summary,    \* the final message about processed files
    report,     \* what validate_data printed
    terminal,   \* observation: state each entry reached in this run
    calls,      \* observation: <<operation, filename>> invoked in this run
    fault,      \* observation: operation whose last call met a failure
    nFaults,    \* observation: failures injected so far
    dbRun1      \* observation: rows of the table when run 1 ended

progVars == <<pc, run, exitCode, argvOk, pandas, dir, listing, cur, db, export,
              processed_any_file, summary, report, terminal, calls, fault,
              nFaults, dbRun1>>

fnVars == <<yrPath, yrOut, ppIn, ppOut, gwIn, gwOut>>

vars == <<fnVars, progVars>>

(***************************************************************************)
(* Text helpers                                                            *)
(***************************************************************************)
Digits == {"0","1","2","3","4","5","6","7","8","9"}

DigitVal(c) ==
    CASE c = "0" -> 0 [] c = "1" -> 1 [] c = "2" -> 2 [] c = "3" -> 3
      [] c = "4" -> 4 [] c = "5" -> 5 [] c = "6" -> 6 [] c = "7" -> 7
      [] c = "8" -> 8 [] c = "9" -> 9

DigitChar(d) == <<"0","1","2","3","4","5","6","7","8","9">>[d + 1]

IsDigits(s) == \A i \in 1..Len(s) : s[i] \in Digits

\* value of a sequence of decimal digits
RECURSIVE DecValue(_)
DecValue(s) ==
    IF s = <<>> THEN 0
    ELSE 10 * DecValue(SubSeq(s, 1, Len(s) - 1)) + DigitVal(s[Len(s)])

StartsWith(s, p) == Len(s) >= Len(p) /\ SubSeq(s, 1, Len(p)) = p

EndsWith(s, p) == Len(s) >= Len(p) /\ SubSeq(s, Len(s) - Len(p) + 1, Len(s)) = p

\* s[-n:] of Python: the last n characters, or all of s when it is shorter
LastN(s, n) == IF Len(s) <= n THEN s ELSE SubSeq(s, Len(s) - n + 1, Len(s))

\* s.split(sep)[-1]: the text after the last occurrence of sep
AfterLast(s, sep) ==
    LET idx == {i \in 1..Len(s) : s[i] = sep}
    IN  IF idx = {} THEN s
        ELSE SubSeq(s, (CHOOSE i \in idx : \A j \in idx : j <= i) + 1, Len(s))

\* s.split(sep)[0]: the text before the first occurrence of sep
BeforeFirst(s, sep) ==
    LET idx == {i \in 1..Len(s) : s[i] = sep}
    IN  IF idx = {} THEN s
        ELSE SubSeq(s, 1, (CHOOSE i \in idx : \A j \in idx : i <= j) - 1)

\* str.strip() restricted to the blank character
RECURSIVE Strip(_)
Strip(s) ==
    IF s = <<>> THEN s
    ELSE IF Head(s) = " " THEN Strip(Tail(s))
    ELSE IF s[Len(s)] = " " THEN Strip(SubSeq(s, 1, Len(s) - 1))
    ELSE s

\* str(n) of an integer
RECURSIVE NatToStr(_)
NatToStr(n) ==
    IF n < 10 THEN <<DigitChar(n)>>
    ELSE NatToStr(n \div 10) \o <<DigitChar(n % 10)>>

IntToStr(n) == IF n < 0 THEN <<"-">> \o NatToStr(0 - n) ELSE NatToStr(n)

(***************************************************************************)
(* Optional integer: Python's None or an int                               *)
(***************************************************************************)
None == [none |-> TRUE, val |-> 0]

Some(n) == [none |-> FALSE, val |-> n]

(***************************************************************************)
(* int(text): blanks stripped, one optional sign, decimal digits that may  *)
(* be grouped by single underscores; anything else raises ValueError,      *)
(* returned here as None.                                                  *)
(***************************************************************************)
IntParse(s) ==
    LET t    == Strip(s)
        sgn  == t /= <<>> /\ Head(t) \in {"+", "-"}
        body == IF sgn THEN Tail(t) ELSE t
        ok   == /\ body /= <<>>
                /\ \A i \in 1..Len(body) : body[i] \in Digits \cup {"_"}
                /\ body[1] /= "_" /\ body[Len(body)] /= "_"
                /\ \A i \in 1..(Len(body) - 1) : ~(body[i] = "_" /\ body[i + 1] = "_")
        digs == SelectSeq(body, LAMBDA c : c /= "_")
    IN  IF ~ok THEN None
        ELSE IF sgn /\ Head(t) = "-" THEN Some(0 - DecValue(digs))
        ELSE Some(DecValue(digs))

(***************************************************************************)
(* Year extractor                                                          *)
(***************************************************************************)
NamePrefix == <<"t","r","e","n","d","i","n","g","_","b","y","_","t","i","m","e","_">>

CsvExt == <<".","c","s","v">>

\* s is 'trending_by_time_' followed by 4 digits and '.csv'
IsYearFile(s) ==
    /\ Len(s) = Len(NamePrefix) + 4 + Len(CsvExt)
    /\ StartsWith(s, NamePrefix)
    /\ IsDigits(SubSeq(s, Len(NamePrefix) + 1, Len(NamePrefix) + 4))
    /\ EndsWith(s, CsvExt)

\* '$' of Python's re matches at the end of the text and before a final newline
DollarCut(s) == IF s /= <<>> /\ s[Len(s)] = "\n" THEN SubSeq(s, 1, Len(s) - 1) ELSE s

\* re.search(r'trending_by_time_(\d{4})\.csv$', file_path): the captured group, or <<>>
YearSearch(p) ==
    LET hit(s) == Len(s) >= 25 /\ IsYearFile(LastN(s, 25))
        grp(s) == SubSeq(s, Len(s) - 7, Len(s) - 4)
    IN  IF hit(p) THEN grp(p)
        ELSE IF hit(DollarCut(p)) THEN grp(DollarCut(p))
        ELSE <<>>

\* variant: re.fullmatch on the path and no fallback
extract_year_from_path_FullMatch(file_path) ==
    IF IsYearFile(file_path) THEN Some(DecValue(YearSearch(file_path))) ELSE None

extract_year_from_path(file_path) ==
    LET m == YearSearch(file_path)
    IN  IF m /= <<>> THEN Some(DecValue(m))
        ELSE IntParse(LastN(BeforeFirst(AfterLast(file_path, "/"), "."), 4))

(***************************************************************************)
(* Inputs of the year extractor: directory, stem prefix, up to MaxTail     *)
(* characters, extension.                                                  *)
(***************************************************************************)
MaxTail == 4

TailChars == {"2", "0", "-", "_", " ", "a"}

SeqsUpTo(S, n) == UNION {[1..k -> S] : k \in 0..n}

PathDirs == {<<>>, <<"d","a","t","a","/">>, <<"a",".","b","/">>}

PathStems == {<<>>, NamePrefix, <<"x">>}

PathExts == {<<>>, CsvExt, <<".","c","s","v","\n">>, <<".","c","s","v",".","b","a","k">>}

\* the paths whose stem ends in k characters of TailChars
YearPaths(k) == {d \o p \o t \o e : d \in PathDirs, p \in PathStems,
                                    t \in [1..k -> TailChars], e \in PathExts}

Pending == [none |-> TRUE, val |-> 1]

(***************************************************************************)
(* The texts that occur as file names and as cells.  A state holds a text  *)
(* by its name; every computation on it runs on its characters.  Text of a *)
(* character sequence that is not in the table is an error of the model,   *)
(* not a value.                                                            *)
(***************************************************************************)
TextTable ==
    ("2020-05-01T10:00:00" :> <<"2","0","2","0","-","0","5","-","0","1","T","1","0",":","0","0",":","0","0">>)
    @@ ("2020-05-02" :> <<"2","0","2","0","-","0","5","-","0","2">>)
    @@ ("2019-12-31" :> <<"2","0","1","9","-","1","2","-","3","1">>)
    @@ ("2020-05-01T10:00:00+01:00" :> <<"2","0","2","0","-","0","5","-","0","1","T","1","0",":","0","0",":","0","0","+","0","1",":","0","0">>)
    @@ ("2020-05-02T10:00:00+02:00" :> <<"2","0","2","0","-","0","5","-","0","2","T","1","0",":","0","0",":","0","0","+","0","2",":","0","0">>)
    @@ ("2020-05-01" :> <<"2","0","2","0","-","0","5","-","0","1">>)
    @@ ("2020-05-01 10:00:00+01:00" :> <<"2","0","2","0","-","0","5","-","0","1"," ","1","0",":","0","0",":","0","0","+","0","1",":","0","0">>)
    @@ ("2020-05-02 10:00:00+02:00" :> <<"2","0","2","0","-","0","5","-","0","2"," ","1","0",":","0","0",":","0","0","+","0","2",":","0","0">>)
    @@ ("0020-05-01" :> <<"0","0","2","0","-","0","5","-","0","1">>)
    @@ ("20/05/2020" :> <<"2","0","/","0","5","/","2","0","2","0">>)
    @@ ("2020" :> <<"2","0","2","0">>)
    @@ ("20-01" :> <<"2","0","-","0","1">>)
    @@ ("abc" :> <<"a","b","c">>)
    @@ ("x" :> <<"x">>)
    @@ ("-" :> <<"-">>)
    @@ ("inf" :> <<"i","n","f">>)
    @@ ("v1" :> <<"v","1">>)
    @@ ("10" :> <<"1","0">>)
    @@ ("5" :> <<"5">>)
    @@ ("-5" :> <<"-","5">>)
    @@ ("3.7" :> <<"3",".","7">>)
    @@ ("0" :> <<"0">>)
    @@ ("1" :> <<"1">>)
    @@ ("3" :> <<"3">>)
    @@ ("7" :> <<"7">>)
    @@ ("trending_by_time_2019.csv" :> <<"t","r","e","n","d","i","n","g","_","b","y","_","t","i","m","e","_","2","0","1","9",".","c","s","v">>)
    @@ ("trending_by_time_2020.csv" :> <<"t","r","e","n","d","i","n","g","_","b","y","_","t","i","m","e","_","2","0","2","0",".","c","s","v">>)
    @@ ("xtrending_by_time_2020.csv" :> <<"x","t","r","e","n","d","i","n","g","_","b","y","_","t","i","m","e","_","2","0","2","0",".","c","s","v">>)

Chars(text) == IF text = "" THEN <<>> ELSE TextTable[text]

Text(chars) ==
    IF chars = <<>> THEN "" ELSE CHOOSE text \in DOMAIN TextTable : TextTable[text] = chars

(***************************************************************************)
(* Cells of a DataFrame.  Every cell is a record of the same shape; t      *)
(* names the kind of value:                                                *)
(*   str    text s                                                         *)
(*   nan    missing value (empty CSV field, NaN, NULL)                     *)
(*   int    integer n                                                      *)
(*   float  finite float, n in tenths                                      *)
(*   inf    infinite float                                                 *)
(*   ts     datetime64 value, n = year*10000 + month*100 + day             *)
(*   nat    NaT                                                            *)
(*   dtobj  datetime.datetime object kept in an object column, s its text  *)
(***************************************************************************)
Str(s) == [t |-> "str", s |-> s, n |-> 0]

NaN == [t |-> "nan", s |-> "", n |-> 0]

IntV(n) == [t |-> "int", s |-> "", n |-> n]

FloatV(tenths) == [t |-> "float", s |-> "", n |-> tenths]

Inf == [t |-> "inf", s |-> "", n |-> 0]

Ts(ymd) == [t |-> "ts", s |-> "", n |-> ymd]

NaT == [t |-> "nat", s |-> "", n |-> 0]

DtObj(s, ymd) == [t |-> "dtobj", s |-> s, n |-> ymd]

(***************************************************************************)
(* A DataFrame: its columns and its rows, each row a function from the     *)
(* columns to cells.                                                       *)
(***************************************************************************)
DataFrame(cols, rows) == [cols |-> cols, rows |-> rows]

\* pd.DataFrame()
EmptyDF == DataFrame({}, <<>>)

\* df.empty: some axis has length 0
IsEmpty(df) == df.cols = {} \/ df.rows = <<>>

Column(df, col) == [i \in 1..Len(df.rows) |-> df.rows[i][col]]

\* df[col] = values
SetColumn(df, col, values) ==
    [df EXCEPT !.rows = [i \in 1..Len(df.rows) |-> [df.rows[i] EXCEPT ![col] = values[i]]]]

(***************************************************************************)
(* pd.to_numeric(column, errors='coerce').fillna(0).astype(int)            *)
(***************************************************************************)
\* text of a decimal number: sign, digits, at most one fractional digit
NumParse(s) ==
    LET neg  == s /= <<>> /\ Head(s) = "-"
        body == IF s /= <<>> /\ Head(s) \in {"+", "-"} THEN Tail(s) ELSE s
        ip   == BeforeFirst(body, ".")
        fp   == IF Len(ip) = Len(body) THEN <<>> ELSE SubSeq(body, Len(ip) + 2, Len(body))
        ok   == ip /= <<>> /\ IsDigits(ip) /\ IsDigits(fp) /\ Len(fp) <= 1
                /\ (Len(ip) < Len(body) => fp /= <<>>)
        mag  == 10 * DecValue(ip) + DecValue(fp)
    IN  IF body = <<"i","n","f">> THEN Inf
        ELSE IF ~ok THEN NaN
        ELSE FloatV(IF neg THEN 0 - mag ELSE mag)

\* errors='coerce': what does not parse becomes NaN
to_numeric(cell) ==
    IF cell.t = "str" THEN NumParse(Chars(cell.s))
    ELSE IF cell.t = "int" THEN FloatV(10 * cell.n)
    ELSE IF cell.t \in {"float", "inf"} THEN cell
    ELSE NaN

fillna0(cell) == IF cell.t = "nan" THEN FloatV(0) ELSE cell

\* float -> int truncates toward zero
Trunc(tenths) == IF tenths >= 0 THEN tenths \div 10 ELSE 0 - ((0 - tenths) \div 10)

\* Series.astype(int) raises on a non-finite value
AstypeIntRaises(column) == \E i \in DOMAIN column : column[i].t = "inf"

astype_int(cell) == IntV(Trunc(cell.n))

(***************************************************************************)
(* pd.to_datetime(column) and Series.dt.strftime('%Y-%m-%d')               *)
(***************************************************************************)
PandasBuilds == {"1.x", "2.x", "3.x"}

\* from 2.0 on the format is inferred from the first value and enforced
StrictFormat(lib) == lib /= "1.x"

\* from 3.0 on values with different UTC offsets raise; before, they give
\* an object column of datetime.datetime values
MixedOffsetsRaise(lib) == lib = "3.x"

DaysIn(y, m) ==
    IF m \in {4, 6, 9, 11} THEN 30
    ELSE IF m = 2 THEN (IF y % 4 = 0 /\ (y % 100 /= 0 \/ y % 400 = 0) THEN 29 ELSE 28)
    ELSE 31

\* digits of s at the positions ps, all of them digits
DigitsAt(s, ps) == \A i \in ps : s[i] \in Digits

\* 'YYYY-MM-DD', optionally 'THH:MM:SS', optionally '+HH:MM'
DateShape(s) ==
    IF ~(/\ Len(s) >= 10
         /\ DigitsAt(s, {1, 2, 3, 4, 6, 7, 9, 10})
         /\ s[5] = "-" /\ s[8] = "-") THEN "bad"
    ELSE IF Len(s) = 10 THEN "date"
    ELSE IF ~(/\ Len(s) >= 19
              /\ s[11] \in {"T", " "}
              /\ DigitsAt(s, {12, 13, 15, 16, 18, 19})
              /\ s[14] = ":" /\ s[17] = ":") THEN "bad"
    ELSE IF Len(s) = 19 THEN "datetime"
    ELSE IF /\ Len(s) = 25
            /\ s[20] \in {"+", "-"}
            /\ DigitsAt(s, {21, 22, 24, 25})
            /\ s[23] = ":" THEN "offset"
    ELSE "bad"

NoDate == [ok |-> FALSE, shape |-> "bad", ymd |-> 0, time |-> <<>>, off |-> <<>>]

\* the value of a text of the given shape with year y, month m and day d;
\* Timestamp.min and Timestamp.max lie in 1677 and 2262
DateValue(s, shape, y, m, d) ==
    IF ~(shape /= "bad" /\ y > 1677 /\ y < 2262 /\ m \in 1..12 /\ d \in 1..DaysIn(y, m))
    THEN NoDate
    ELSE [ok    |-> TRUE,
          shape |-> shape,
          ymd   |-> y * 10000 + m * 100 + d,
          time  |-> IF shape = "date" THEN <<"0","0",":","0","0",":","0","0">>
                    ELSE SubSeq(s, 12, 19),
          off   |-> IF shape = "offset" THEN SubSeq(s, 20, 25) ELSE <<>>]

ParseDate(s) ==
    IF DateShape(s) = "bad" THEN NoDate
    ELSE DateValue(s, DateShape(s), DecValue(SubSeq(s, 1, 4)),
                   DecValue(SubSeq(s, 6, 7)), DecValue(SubSeq(s, 9, 10)))

Pad(n, w) ==
    LET d == NatToStr(n) IN [i \in 1..(w - Len(d)) |-> "0"] \o d

\* strftime('%Y-%m-%d')
FormatDate(ymd) ==
    Pad(ymd \div 10000, 4) \o <<"-">> \o Pad((ymd \div 100) % 100, 2)
        \o <<"-">> \o Pad(ymd % 100, 2)

\* the parse of every text cell of a column
ParseColumn(column) ==
    [i \in DOMAIN column |->
        IF column[i].t = "str" THEN ParseDate(Chars(column[i].s)) ELSE NoDate]

\* the texts of a column p parsed as: raised, or the new column and whether
\* the .dt accessor works on it
Converted(column, lib, p) ==
    LET idx     == DOMAIN column
        texts   == {i \in idx : column[i].t = "str"}
        first   == CHOOSE i \in texts : \A j \in texts : i <= j
        shapes  == {p[i].shape : i \in texts}
        offs    == {p[i].off : i \in texts}
    IN  IF \/ \E i \in idx : column[i].t \notin {"str", "nan"} \/ (i \in texts /\ ~p[i].ok)
           \/ (StrictFormat(lib) /\ \E i \in texts : p[i].shape /= p[first].shape)
           \/ ("offset" \in shapes /\ shapes /= {"offset"})
           \/ (Cardinality(offs) > 1 /\ MixedOffsetsRaise(lib))
        THEN [raised |-> TRUE, dtlike |-> FALSE, col |-> column]
        ELSE [raised |-> FALSE,
              dtlike |-> Cardinality(offs) <= 1,
              col    |-> [i \in idx |->
                            IF column[i].t = "nan" THEN NaT
                            ELSE IF Cardinality(offs) <= 1 THEN Ts(p[i].ymd)
                            ELSE DtObj(Text(FormatDate(p[i].ymd) \o <<" ">> \o p[i].time \o p[i].off),
                                       p[i].ymd)]]

\* what pd.to_datetime does with a column under a build of pandas
to_datetime(column, lib) == Converted(column, lib, ParseColumn(column))

\* Series.dt.strftime('%Y-%m-%d'): NaT gives a missing value
strftime(cell) == IF cell.t = "nat" THEN NaN ELSE Str(Text(FormatDate(cell.n)))

(***************************************************************************)
(* preprocess_data(df, threshold): [raised, df].  threshold is accepted    *)
(* and never read.                                                         *)
(***************************************************************************)
\* lines 206-214 on the outcome conv of pd.to_datetime
Reformat(df, conv) ==
    IF conv.raised THEN df                                  \* line 206 raised: nothing assigned
    ELSE IF ~conv.dtlike
         THEN SetColumn(df, "trending_date", conv.col)      \* line 214 raised: line 206 stays
    ELSE SetColumn(SetColumn(df, "trending_date", conv.col), "trending_date",
                   [i \in DOMAIN conv.col |-> strftime(conv.col[i])])

NormalizeDates(df, lib) ==
    IF "trending_date" \notin df.cols THEN df
    ELSE Reformat(df, to_datetime(Column(df, "trending_date"), lib))

\* line 231 on the column nums that to_numeric and fillna gave
AstypeInt(df, dated, nums) ==
    IF AstypeIntRaises(nums) THEN [raised |-> TRUE, df |-> df]
    ELSE [raised |-> FALSE,
          df |-> SetColumn(dated, "videos_count",
                           [i \in DOMAIN nums |-> astype_int(nums[i])])]

\* lines 225-232 on the table the date block left
CoerceCounts(df, dated) ==
    IF "videos_count" \notin dated.cols THEN [raised |-> FALSE, df |-> dated]
    ELSE AstypeInt(df, dated,
                   [i \in 1..Len(dated.rows) |->
                       fillna0(to_numeric(dated.rows[i]["videos_count"]))])

\* variant: the row removal of the docstring is active, a threshold of 0
\* removes every row that has a missing cell
preprocess_data_Threshold(df, threshold, lib) ==
    IF IsEmpty(df) THEN [raised |-> FALSE, df |-> df]
    ELSE CoerceCounts(df,
            NormalizeDates(
                [df EXCEPT !.rows =
                    SelectSeq(@, LAMBDA r : threshold > 0 \/ \A c \in df.cols : r[c].t /= "nan")],
                lib))

preprocess_data(df, threshold, lib) ==
    IF IsEmpty(df) THEN [raised |-> FALSE, df |-> df]
    ELSE CoerceCounts(df, NormalizeDates(df, lib))

(***************************************************************************)
(* Inputs of preprocess_data: tables of up to MaxRows rows over each       *)
(* choice of columns, and the tables of the documented examples.           *)
(***************************************************************************)
MaxRows == 2

DateCells ==
    { Str("2020-05-01T10:00:00"),
      Str("2020-05-02"),
      Str("2020-05-01T10:00:00+01:00"),
      Str("2020-05-02T10:00:00+02:00"),
      Str("abc"),
      NaN }

CountCells ==
    { Str("10"), Str("abc"), NaN, Str("-5"),
      Str("3.7"), Str("inf") }

TitleCells == { Str("v1") }

ColumnSets ==
    { {"trending_date", "videos_count", "title"}, {"trending_date", "title"},
      {"videos_count"}, {"title"} }

RowsOver(cols) ==
    {[c \in cols |-> IF c = "trending_date" THEN d ELSE IF c = "videos_count" THEN v ELSE w] :
        d \in DateCells, v \in CountCells, w \in TitleCells}

CountRow(v) == [c \in {"videos_count"} |-> v]

\* videos_count of the documented coercion example: "10", "abc", "", "-"
CoercionExample ==
    DataFrame({"videos_count"},
              << CountRow(Str("10")), CountRow(Str("abc")),
                 CountRow(NaN), CountRow(Str("-")) >>)

\* a table whose rows differ in every column, one date missing
FrameExample ==
    DataFrame({"trending_date", "videos_count", "title"},
              << [trending_date |-> Str("2020-05-01T10:00:00"), videos_count |-> Str("10"),
                  title |-> Str("v1")],
                 [trending_date |-> NaN, videos_count |-> Str("abc"), title |-> Str("x")] >>)

\* the tables of k rows over the columns cols
PreprocessInputs(cols, k) ==
    {DataFrame(cols, rows) : rows \in [1..k -> RowsOver(cols)]}

Thresholds == {0, 5, 10}      \* threshold, in tenths

NotCalled == [raised |-> FALSE, df |-> EmptyDF, called |-> FALSE]

(***************************************************************************)
(* The store.  dirOk: the directory of the database file exists; exists:   *)
(* the table trending_by_time exists; cols, rows: its columns and rows.    *)
(***************************************************************************)
Store(dirOk, exists, cols, rows) ==
    [dirOk |-> dirOk, exists |-> exists, cols |-> cols, rows |-> rows]

NoStore == Store(FALSE, FALSE, {}, <<>>)

NoTable == Store(TRUE, FALSE, {}, <<>>)

\* the text SQLite compares in LIKE; a NULL has none
SqlText(cell) ==
    IF cell.t \in {"str", "dtobj"} THEN Chars(cell.s)
    ELSE IF cell.t = "int" THEN IntToStr(cell.n)
    ELSE <<>>

\* trending_date LIKE :year_pattern with year_pattern = f"{year}-%"
LikeYear(cell, year) ==
    cell.t \notin {"nan", "nat"} /\ StartsWith(SqlText(cell), IntToStr(year) \o <<"-">>)

\* variant: the pattern is f"{year}%", without the dash
data_already_exist_NoDash(store, year, failed) ==
    IF year.none \/ failed \/ ~store.exists \/ "trending_date" \notin store.cols THEN FALSE
    ELSE \E i \in 1..Len(store.rows) :
            /\ store.rows[i]["trending_date"].t \notin {"nan", "nat"}
            /\ StartsWith(SqlText(store.rows[i]["trending_date"]), IntToStr(year.val))

(***************************************************************************)
(* data_already_exist(engine, table_name, year); failed: the connection or *)
(* the query raised.                                                       *)
(***************************************************************************)
data_already_exist(store, year, failed) ==
    IF year.none THEN FALSE
    ELSE IF failed THEN FALSE                               \* except, lines 138-148
    ELSE IF ~store.exists THEN FALSE                        \* no such table
    ELSE IF "trending_date" \notin store.cols THEN FALSE    \* no such column
    ELSE \E i \in 1..Len(store.rows) : LikeYear(store.rows[i]["trending_date"], year.val)

(***************************************************************************)
(* load_data(file_path): the table of a readable file, an empty DataFrame  *)
(* for a missing or unreadable one.                                        *)
(***************************************************************************)
Unreadable == [kind |-> "unreadable", df |-> EmptyDF]

Absent == [kind |-> "absent", df |-> EmptyDF]

CsvFile(df) == [kind |-> "csv", df |-> df]

load_data(content) == IF content.kind = "csv" THEN content.df ELSE EmptyDF

(***************************************************************************)
(* save_to_database(df, engine, table_name): the store after the call.     *)
(* to_sql runs in one transaction, so a failure leaves the table as it was.*)
(***************************************************************************)
\* a row of df widened to the columns of the table, NULL where df has none
Widen(row, cols) == [c \in cols |-> IF c \in DOMAIN row THEN row[c] ELSE NaN]

\* variant: no transaction, a failure leaves the first row of df written
save_to_database_Partial(df, store, failed) ==
    IF IsEmpty(df) THEN store
    ELSE IF ~store.exists THEN Store(TRUE, TRUE, df.cols, IF failed THEN <<df.rows[1]>> ELSE df.rows)
    ELSE IF ~(df.cols \subseteq store.cols) THEN store
    ELSE [store EXCEPT !.rows =
             @ \o [i \in 1..(IF failed THEN 1 ELSE Len(df.rows)) |-> Widen(df.rows[i], store.cols)]]

\* variant: if_exists='replace', the table is rebuilt from df
save_to_database_Replace(df, store, failed) ==
    IF IsEmpty(df) \/ failed THEN store
    ELSE Store(TRUE, TRUE, df.cols, df.rows)

save_to_database(df, store, failed) ==
    IF IsEmpty(df) THEN store
    ELSE IF failed THEN store
    ELSE IF ~store.exists THEN Store(TRUE, TRUE, df.cols, df.rows)
    ELSE IF ~(df.cols \subseteq store.cols) THEN store      \* table has no column named ...
    ELSE [store EXCEPT !.rows = @ \o [i \in 1..Len(df.rows) |-> Widen(df.rows[i], store.cols)]]

\* whether the call above wrote the rows of df
Saved(df, store, failed) ==
    ~IsEmpty(df) /\ ~failed /\ (store.exists => df.cols \subseteq store.cols)

(***************************************************************************)
(* validate_data(engine, table_name): what is printed                      *)
(***************************************************************************)
ReportLimit == 20

validate_data(store, failed) ==
    IF failed THEN [status |-> "error", shown |-> 0, more |-> 0]
    ELSE IF ~store.exists THEN [status |-> "no_table", shown |-> 0, more |-> 0]
    ELSE IF "trending_date" \notin store.cols THEN [status |-> "error", shown |-> 0, more |-> 0]
    ELSE LET groups == Cardinality({store.rows[i]["trending_date"] : i \in 1..Len(store.rows)})
         IN  IF groups = 0 THEN [status |-> "no_rows", shown |-> 0, more |-> 0]
             ELSE [status |-> "groups",
                   shown  |-> IF groups > ReportLimit THEN ReportLimit ELSE groups,
                   more   |-> IF groups > ReportLimit THEN groups - ReportLimit ELSE 0]

(***************************************************************************)
(* export_db_to_csv(engine, table_name, output_csv_path): the artifact     *)
(* after the call.  A line of the artifact maps each column to its field.  *)
(***************************************************************************)
CsvField(cell) ==
    IF cell.t \in {"str", "dtobj"} THEN cell.s
    ELSE IF cell.t = "int" THEN Text(IntToStr(cell.n))
    ELSE ""

Artifact(exists, cols, lines) == [exists |-> exists, cols |-> cols, lines |-> lines]

NoArtifact == Artifact(FALSE, {}, <<>>)

to_csv(cols, rows) ==
    Artifact(TRUE, cols, [i \in 1..Len(rows) |-> [c \in cols |-> CsvField(rows[i][c])]])

\* the export opened in append mode instead of replacing the file
export_db_to_csv_Append(store, old, failed) ==
    IF failed \/ ~store.exists \/ store.rows = <<>> \/ store.cols = {} THEN old
    ELSE Artifact(TRUE, store.cols, old.lines \o to_csv(store.cols, store.rows).lines)

export_db_to_csv(store, old, failed) ==
    IF failed THEN old
    ELSE IF ~store.exists THEN old              \* read_sql_table raises, caught
    ELSE IF store.rows = <<>> \/ store.cols = {} THEN old
    ELSE to_csv(store.cols, store.rows)

(***************************************************************************)
(* create_db_engine(db_path): "ok", or the reason of sys.exit(1)           *)
(***************************************************************************)
EngineOutcomes == {"ok", "makedirs_failed", "connect_failed"}

create_db_engine(store, outcome) ==
    IF ~store.dirOk /\ outcome = "makedirs_failed" THEN "exit"
    ELSE IF outcome = "connect_failed" THEN "exit"
    ELSE "engine"

(***************************************************************************)
(* parse_arguments(): sys.exit(2) when getopt rejects the command line     *)
(***************************************************************************)
parse_arguments(ok) == IF ok THEN "file_path" ELSE "exit2"

(***************************************************************************)
(* The data directory of the model                                         *)
(***************************************************************************)
DataDir == <<"d","a","t","a">>

File2019 == "trending_by_time_2019.csv"

File2020 == "trending_by_time_2020.csv"

\* not accepted by re.match, although re.search of the year extractor finds a year
FileOther == "xtrending_by_time_2020.csv"

Names == {File2019, File2020, FileOther}

\* os.path.join(data_directory, filename)
PathOf(filename) == DataDir \o <<"/">> \o Chars(filename)

\* re.match(r'trending_by_time_\d{4}\.csv$', filename)
Discovered(filename) == IsYearFile(Chars(filename)) \/ IsYearFile(DollarCut(Chars(filename)))

DateCount(d, v) ==
    [c \in {"trending_date", "videos_count"} |-> IF c = "trending_date" THEN d ELSE v]

DateCountTitle(d, v, w) ==
    [c \in {"trending_date", "videos_count", "title"} |->
        IF c = "trending_date" THEN d ELSE IF c = "videos_count" THEN v ELSE w]

D_2020_05_01T == Str("2020-05-01T10:00:00")

D_2020_05_02 == Str("2020-05-02")

D_2019_12_31 == Str("2019-12-31")

D_2020_plus1 ==
    Str("2020-05-01T10:00:00+01:00")

D_2020_plus2 ==
    Str("2020-05-02T10:00:00+02:00")

\* the rows of the documented end-to-end scenario
TableScenario ==
    DataFrame({"trending_date", "videos_count"},
              << DateCount(D_2020_05_01T, Str("5")), DateCount(D_2020_05_02, Str("x")) >>)

\* rows dated 2019, whatever the name of the file that holds them
TableDated2019 ==
    DataFrame({"trending_date", "videos_count"}, << DateCount(D_2019_12_31, Str("10")) >>)

TableInfinite ==
    DataFrame({"trending_date", "videos_count"}, << DateCount(D_2020_05_02, Str("inf")) >>)

TableOffsets ==
    DataFrame({"trending_date", "videos_count"},
              << DateCount(D_2020_plus1, Str("10")), DateCount(D_2020_plus2, Str("-5")) >>)

TableTitled ==
    DataFrame({"trending_date", "videos_count", "title"},
              << DateCountTitle(D_2020_05_02, Str("3.7"), Str("v1")) >>)

TableNoDate ==
    DataFrame({"videos_count"}, << CountRow(Str("10")) >>)

TableHeaderOnly == DataFrame({"trending_date", "videos_count"}, <<>>)

\* what the data directory may hold under a name
ContentOf(id) ==
    CASE id = "absent"      -> Absent
      [] id = "unreadable"  -> Unreadable
      [] id = "header_only" -> CsvFile(TableHeaderOnly)
      [] id = "scenario"    -> CsvFile(TableScenario)
      [] id = "dated_2019"  -> CsvFile(TableDated2019)
      [] id = "infinite"    -> CsvFile(TableInfinite)
      [] id = "offsets"     -> CsvFile(TableOffsets)
      [] id = "titled"      -> CsvFile(TableTitled)
      [] id = "no_date"     -> CsvFile(TableNoDate)

Contents ==
    { "absent", "unreadable", "header_only", "scenario", "dated_2019", "infinite",
      "offsets", "titled", "no_date" }

\* the data directory does not exist
NoDir == [n \in Names |-> "no_directory"]

\* every content under the 2020 name, three under the 2019 name, two under the other
Directories ==
    {d \in [Names -> Contents] :
        /\ d[FileOther] \in {"absent", "scenario"}
        /\ d[File2019] \in {"absent", "dated_2019", "scenario"}}

Entries(d) == {n \in DOMAIN d : d[n] /= "absent"}

\* the orders in which os.listdir may return the entries
Listings(S) ==
    {l \in [1..Cardinality(S) -> S] : \A i, j \in 1..Cardinality(S) : l[i] = l[j] => i = j}

InitialStores ==
    { NoStore, NoTable,
      Store(TRUE, TRUE, {"trending_date", "videos_count"}, <<>>),
      Store(TRUE, TRUE, {"trending_date", "videos_count"},
            << DateCount(D_2019_12_31, IntV(7)) >>) }

InitialArtifacts ==
    { NoArtifact,
      to_csv({"trending_date", "videos_count"}, << DateCount(D_2019_12_31, IntV(1)) >>) }

(***************************************************************************)
(* Bounds of the program model                                             *)
(***************************************************************************)
MaxRuns == 2        \* runs of the program against the same data directory

MaxFaults == 1      \* storage failures injected over all runs

Running == 0 - 1

NoCur == [filename |-> "", year |-> None, df |-> EmptyDF]

NoReport == [status |-> "none", shown |-> 0, more |-> 0]

NoGw == [called |-> FALSE, result |-> FALSE]

NoCall == [store |-> NoStore, year |-> None, failed |-> FALSE]

FnIdle ==
    /\ yrPath = <<>>
    /\ yrOut = Pending
    /\ ppIn = EmptyDF
    /\ ppOut = NotCalled
    /\ gwIn = NoCall
    /\ gwOut = NoGw

RunStart ==
    /\ pc = "start"
    /\ exitCode = Running
    /\ listing = <<>>
    /\ cur = NoCur
    /\ processed_any_file = FALSE
    /\ summary = "none"
    /\ report = NoReport
    /\ terminal = [n \in Names |-> "NONE"]
    /\ calls = {}
    /\ fault = "none"

Init ==
    /\ FnIdle
    /\ RunStart
    /\ run = 1
    /\ argvOk \in BOOLEAN
    /\ pandas \in PandasBuilds
    /\ dir \in Directories \cup {NoDir}
    /\ db \in InitialStores
    /\ export \in InitialArtifacts
    /\ nFaults = 0
    /\ dbRun1 = <<>>

\* a storage failure may be injected while the bound allows it
MayFail(failed) == failed => nFaults < MaxFaults

Count(failed) == IF failed THEN nFaults + 1 ELSE nFaults

Reach(filename, state) == [terminal EXCEPT ![filename] = state]

(***************************************************************************)
(* __main__, lines 410-420: the engine is created before anything else;    *)
(* parse_arguments is not called.                                          *)
(***************************************************************************)
CreateDbEngine ==
    /\ pc = "start"
    /\ \E outcome \in EngineOutcomes :
          /\ MayFail(outcome /= "ok")
          /\ outcome = "makedirs_failed" => ~db.dirOk
          /\ nFaults' = Count(outcome /= "ok")
          /\ IF create_db_engine(db, outcome) = "exit"
             THEN /\ pc' = "exited"
                  /\ exitCode' = 1
                  /\ fault' = "create_db_engine"
                  /\ db' = db
             ELSE /\ pc' = "dircheck"
                  /\ exitCode' = exitCode
                  /\ fault' = "none"
                  /\ db' = [db EXCEPT !.dirOk = TRUE]
    /\ UNCHANGED <<run, argvOk, pandas, dir, listing, cur, export, processed_any_file,
                   summary, report, terminal, calls, dbRun1, fnVars>>

\* lines 423-433
CheckDataDir ==
    /\ pc = "dircheck"
    /\ processed_any_file' = FALSE
    /\ fault' = "none"
    /\ IF dir = NoDir
       THEN /\ pc' = "exited"
            /\ exitCode' = 1
            /\ listing' = listing
       ELSE /\ pc' = "loop"
            /\ exitCode' = exitCode
            /\ listing' \in Listings(Entries(dir))
    /\ UNCHANGED <<run, argvOk, pandas, dir, cur, db, export, summary, report,
                   terminal, calls, nFaults, dbRun1, fnVars>>

\* lines 433-447 and 477-478: next entry, name filter, year extraction
Discover ==
    /\ pc = "loop"
    /\ listing /= <<>>
    /\ LET filename == Head(listing)
           year     == extract_year_from_path(PathOf(filename))
       IN  /\ listing' = Tail(listing)
           /\ IF ~Discovered(filename)
              THEN /\ terminal' = Reach(filename, "IGNORED")
                   /\ UNCHANGED <<pc, cur>>
              ELSE IF year.none
              THEN /\ terminal' = Reach(filename, "SKIPPED_NO_YEAR")
                   /\ UNCHANGED <<pc, cur>>
              ELSE /\ terminal' = Reach(filename, "YEAR_EXTRACTED")
                   /\ cur' = [filename |-> filename, year |-> year, df |-> EmptyDF]
                   /\ pc' = "exists"
    /\ fault' = "none"
    /\ UNCHANGED <<run, exitCode, argvOk, pandas, dir, db, export, processed_any_file,
                   summary, report, calls, nFaults, dbRun1, fnVars>>

\* lines 451-456
DataAlreadyExist ==
    /\ pc = "exists"
    /\ \E failed \in BOOLEAN :
          /\ MayFail(failed)
          /\ nFaults' = Count(failed)
          /\ fault' = IF failed THEN "data_already_exist" ELSE "none"
          /\ IF data_already_exist(db, cur.year, failed)
             THEN /\ terminal' = Reach(cur.filename, "SKIPPED_DUPLICATE")
                  /\ pc' = "loop"
             ELSE /\ terminal' = terminal
                  /\ pc' = "load"
    /\ UNCHANGED <<run, exitCode, argvOk, pandas, dir, listing, cur, db, export,
                   processed_any_file, summary, report, calls, dbRun1, fnVars>>

\* lines 459-463 and 475-476
LoadData ==
    /\ pc = "load"
    /\ LET raw_data == load_data(ContentOf(dir[cur.filename]))
       IN  /\ calls' = calls \cup {<<"load_data", cur.filename>>}
           /\ IF IsEmpty(raw_data)
              THEN /\ terminal' = Reach(cur.filename, "SKIPPED_EMPTY_LOAD")
                   /\ pc' = "loop"
                   /\ cur' = cur
              ELSE /\ terminal' = terminal
                   /\ pc' = "preprocess"
                   /\ cur' = [cur EXCEPT !.df = raw_data]
    /\ fault' = "none"
    /\ UNCHANGED <<run, exitCode, argvOk, pandas, dir, listing, db, export,
                   processed_any_file, summary, report, nFaults, dbRun1, fnVars>>

\* lines 466-474; an exception of preprocess_data is caught nowhere and ends
\* the interpreter with status 1
PreprocessData ==
    /\ pc = "preprocess"
    /\ LET processed == preprocess_data(cur.df, 5, pandas)
       IN  /\ calls' = calls \cup {<<"preprocess_data", cur.filename>>}
           /\ IF processed.raised
              THEN /\ pc' = "exited"
                   /\ exitCode' = 1
                   /\ fault' = "preprocess_data"
                   /\ UNCHANGED <<terminal, cur>>
              ELSE IF IsEmpty(processed.df)
              THEN /\ terminal' = Reach(cur.filename, "SKIPPED_EMPTY_NORMALIZED")
                   /\ pc' = "loop"
                   /\ fault' = "none"
                   /\ UNCHANGED <<exitCode, cur>>
              ELSE /\ cur' = [cur EXCEPT !.df = processed.df]
                   /\ pc' = "save"
                   /\ fault' = "none"
                   /\ UNCHANGED <<exitCode, terminal>>
    /\ UNCHANGED <<run, argvOk, pandas, dir, listing, db, export, processed_any_file,
                   summary, report, nFaults, dbRun1, fnVars>>

\* lines 471-472
SaveToDatabase ==
    /\ pc = "save"
    /\ \E failed \in BOOLEAN :
          /\ MayFail(failed)
          /\ nFaults' = Count(failed)
          /\ fault' = IF failed THEN "save_to_database" ELSE "none"
          /\ db' = save_to_database(cur.df, db, failed)
    /\ calls' = calls \cup {<<"save_to_database", cur.filename>>}
    /\ processed_any_file' = TRUE
    /\ terminal' = Reach(cur.filename, "INGESTED")
    /\ pc' = "loop"
    /\ UNCHANGED <<run, exitCode, argvOk, pandas, dir, listing, cur, export, summary,
                   report, dbRun1, fnVars>>

\* lines 481-484
Summary ==
    /\ pc = "loop"
    /\ listing = <<>>
    /\ summary' = IF ~processed_any_file THEN "no_new_file_processed" ELSE "all_new_files_processed"
    /\ pc' = "validate"
    /\ fault' = "none"
    /\ UNCHANGED <<run, exitCode, argvOk, pandas, dir, listing, cur, db, export,
                   processed_any_file, report, terminal, calls, nFaults, dbRun1, fnVars>>

\* line 487
ValidateData ==
    /\ pc = "validate"
    /\ \E failed \in BOOLEAN :
          /\ MayFail(failed)
          /\ nFaults' = Count(failed)
          /\ fault' = IF failed THEN "validate_data" ELSE "none"
          /\ report' = validate_data(db, failed)
    /\ pc' = "export"
    /\ UNCHANGED <<run, exitCode, argvOk, pandas, dir, listing, cur, db, export,
                   processed_any_file, summary, terminal, calls, dbRun1, fnVars>>

\* lines 490-495: after the export the script ends, status 0
ExportDbToCsv ==
    /\ pc = "export"
    /\ \E failed \in BOOLEAN :
          /\ MayFail(failed)
          /\ nFaults' = Count(failed)
          /\ fault' = IF failed THEN "export_db_to_csv" ELSE "none"
          /\ export' = export_db_to_csv(db, export, failed)
    /\ pc' = "done"
    /\ exitCode' = 0
    /\ UNCHANGED <<run, argvOk, pandas, dir, listing, cur, db, processed_any_file,
                   summary, report, terminal, calls, dbRun1, fnVars>>

\* the program is started again on the same data directory and store
NextRun ==
    /\ pc \in {"done", "exited"}
    /\ run < MaxRuns
    /\ run' = run + 1
    /\ dbRun1' = IF run = 1 THEN db.rows ELSE dbRun1
    /\ pc' = "start"
    /\ exitCode' = Running
    /\ listing' = <<>>
    /\ cur' = NoCur
    /\ processed_any_file' = FALSE
    /\ summary' = "none"
    /\ report' = NoReport
    /\ terminal' = [n \in Names |-> "NONE"]
    /\ calls' = {}
    /\ fault' = "none"
    /\ UNCHANGED <<argvOk, pandas, dir, db, export, nFaults, fnVars>>

Next ==
    \/ CreateDbEngine
    \/ CheckDataDir
    \/ Discover
    \/ DataAlreadyExist
    \/ LoadData
    \/ PreprocessData
    \/ SaveToDatabase
    \/ Summary
    \/ ValidateData
    \/ ExportDbToCsv
    \/ NextRun

Spec == Init /\ [][Next]_vars

(***************************************************************************)
(* Specifications of the single functions: the program itself stands       *)
(* still, the inputs come from bounded sets and one action applies the     *)
(* function.                                                               *)
(***************************************************************************)
ProgIdle ==
    /\ pc = "idle"
    /\ run = 0
    /\ exitCode = Running
    /\ argvOk = TRUE
    /\ pandas = "2.x"
    /\ dir = NoDir
    /\ listing = <<>>
    /\ cur = NoCur
    /\ export = NoArtifact
    /\ processed_any_file = FALSE
    /\ summary = "none"
    /\ report = NoReport
    /\ terminal = [n \in Names |-> "NONE"]
    /\ calls = {}
    /\ fault = "none"
    /\ nFaults = 0
    /\ dbRun1 = <<>>

InitYear ==
    /\ ProgIdle
    /\ db = NoStore
    /\ \E k \in 0..MaxTail : yrPath \in YearPaths(k)
    /\ yrOut = Pending
    /\ ppIn = EmptyDF
    /\ ppOut = NotCalled
    /\ gwIn = NoCall
    /\ gwOut = NoGw

ExtractYear ==
    /\ pc = "idle"
    /\ yrOut = Pending
    /\ yrOut' = extract_year_from_path(yrPath)
    /\ UNCHANGED <<yrPath, ppIn, ppOut, gwIn, gwOut, progVars>>

NextYear == ExtractYear

SpecYear == InitYear /\ [][NextYear]_vars

InitPre ==
    /\ ProgIdle
    /\ db = NoStore
    /\ \/ ppIn \in {CoercionExample, EmptyDF, FrameExample}
       \/ \E cols \in ColumnSets, k \in 0..MaxRows : ppIn \in PreprocessInputs(cols, k)
    /\ ppOut = NotCalled
    /\ yrPath = <<>>
    /\ yrOut = Pending
    /\ gwIn = NoCall
    /\ gwOut = NoGw

Preprocess ==
    /\ pc = "idle"
    /\ ~ppOut.called
    /\ \E threshold \in Thresholds, build \in PandasBuilds :
          LET r == preprocess_data(ppIn, threshold, build)
          IN  ppOut' = [raised |-> r.raised, df |-> r.df, called |-> TRUE]
    /\ UNCHANGED <<ppIn, yrPath, yrOut, gwIn, gwOut, progVars>>

NextPre == Preprocess

SpecPre == InitPre /\ [][NextPre]_vars

(***************************************************************************)
(* data_already_exist on every store of up to MaxStoreRows rows            *)
(***************************************************************************)
MaxStoreRows == 2

D_0020_05_01 == Str("0020-05-01")

D_20_slash == Str("20/05/2020")

StoredDates ==
    { D_2020_05_02, D_2019_12_31, D_2020_05_01T, D_0020_05_01, D_20_slash, NaN,
      Str("2020"), Str("20-01") }

DateRow(d) == [c \in {"trending_date"} |-> d]

GatewayStores ==
    { NoStore, NoTable, Store(TRUE, TRUE, {"videos_count"}, << CountRow(IntV(2020)) >>) }
        \cup { Store(TRUE, TRUE, {"trending_date"}, rows) :
                  rows \in SeqsUpTo({DateRow(d) : d \in StoredDates}, MaxStoreRows) }

GatewayYears == { None, Some(2019), Some(2020), Some(20), Some(202) }

InitGateway ==
    /\ ProgIdle
    /\ db \in GatewayStores
    /\ gwIn \in [store : {db}, year : GatewayYears, failed : BOOLEAN]
    /\ gwOut = NoGw
    /\ yrPath = <<>>
    /\ yrOut = Pending
    /\ ppIn = EmptyDF
    /\ ppOut = NotCalled

CallDataAlreadyExist ==
    /\ pc = "idle"
    /\ ~gwOut.called
    /\ gwOut' = [called |-> TRUE, result |-> data_already_exist(db, gwIn.year, gwIn.failed)]
    /\ UNCHANGED <<gwIn, yrPath, yrOut, ppIn, ppOut, progVars>>

NextGateway == CallDataAlreadyExist

SpecGateway == InitGateway /\ [][NextGateway]_vars

(***************************************************************************)
(* Properties                                                              *)
(***************************************************************************)
LedgerYears == {2019, 2020}

\* number of rows whose trending_date begins with '<year>-'
RowsOfYear(rows, year) ==
    Cardinality({i \in 1..Len(rows) :
                    /\ "trending_date" \in DOMAIN rows[i]
                    /\ LikeYear(rows[i]["trending_date"], year)})

Ended == pc \in {"done", "exited"}

(***************************************************************************)
(* C1 - Idempotence of the full ingestion run: after a second run against  *)
(* the same data directory, every year that had rows when the first run    *)
(* ended has the same number of rows.  Stated for runs in which no storage *)
(* operation fails.                                                        *)
(***************************************************************************)
C1_SecondRunAppendsNothing ==
    (run = 2 /\ nFaults = 0) =>
        \A y \in LedgerYears :
            RowsOfYear(dbRun1, y) > 0 => RowsOfYear(db.rows, y) = RowsOfYear(dbRun1, y)

(***************************************************************************)
(* C2 - Year ledger: once the table holds a row of year Y, no step of the  *)
(* orchestrator, in this run or a later one, appends a row of year Y.      *)
(* Stated for steps in which no storage operation has failed.              *)
(***************************************************************************)
C2_YearLedger ==
    [][nFaults' = 0 =>
          \A y \in LedgerYears :
              RowsOfYear(db.rows, y) > 0 => RowsOfYear(db'.rows, y) = RowsOfYear(db.rows, y)]_vars

(***************************************************************************)
(* C3 - extract_year_from_path returns the 4 digits of a path that ends in *)
(* 'trending_by_time_<4 digits>.csv', and None for a path that does not    *)
(* end so and whose filename stem does not end in 4 numeric characters.    *)
(***************************************************************************)
C3_EndsInPattern(p) == Len(p) >= 25 /\ IsYearFile(LastN(p, 25))

C3_Stem(p) == BeforeFirst(AfterLast(p, "/"), ".")

C3_StemEndsIn4Digits(p) == Len(C3_Stem(p)) >= 4 /\ IsDigits(LastN(C3_Stem(p), 4))

C3_YearExtraction ==
    yrOut /= Pending =>
        /\ C3_EndsInPattern(yrPath) =>
              yrOut = Some(DecValue(SubSeq(yrPath, Len(yrPath) - 7, Len(yrPath) - 4)))
        /\ (~C3_EndsInPattern(yrPath) /\ ~C3_StemEndsIn4Digits(yrPath)) => yrOut = None

(***************************************************************************)
(* C4 - preprocess_data integer coercion: for a non-empty table with a     *)
(* videos_count column the call returns a table in which every             *)
(* videos_count cell is a non-negative integer, a cell that does not parse *)
(* as a number is 0, and "10", "abc", "", "-" become 10, 0, 0, 0.          *)
(***************************************************************************)
C4_HasCounts == ppOut.called /\ ~IsEmpty(ppIn) /\ "videos_count" \in ppIn.cols

C4_IntegerCoercion ==
    C4_HasCounts =>
        /\ ~ppOut.raised
        /\ Len(ppOut.df.rows) = Len(ppIn.rows)
        /\ \A i \in 1..Len(ppIn.rows) :
              LET before == ppIn.rows[i]["videos_count"]
                  after  == ppOut.df.rows[i]["videos_count"]
              IN  /\ after.t = "int"
                  /\ after.n >= 0
                  /\ to_numeric(before).t = "nan" => after.n = 0
        /\ ppIn = CoercionExample =>
              Column(ppOut.df, "videos_count") = <<IntV(10), IntV(0), IntV(0), IntV(0)>>

(***************************************************************************)
(* C5 - preprocess_data date normalization is atomic per column: in the    *)
(* returned table the trending_date column is either all text of the form  *)
(* YYYY-MM-DD or cell for cell the column of the input.                    *)
(***************************************************************************)
C5_IsYMD(cell) ==
    /\ cell.t = "str"
    /\ LET c == Chars(cell.s)
       IN  /\ Len(c) = 10
           /\ DigitsAt(c, {1, 2, 3, 4, 6, 7, 9, 10})
           /\ c[5] = "-" /\ c[8] = "-"

C5_HasDates ==
    ppOut.called /\ ~ppOut.raised /\ ~IsEmpty(ppIn) /\ "trending_date" \in ppIn.cols

C5_DateAtomicity ==
    C5_HasDates =>
        \/ \A i \in 1..Len(ppOut.df.rows) : C5_IsYMD(ppOut.df.rows[i]["trending_date"])
        \/ Column(ppOut.df, "trending_date") = Column(ppIn, "trending_date")

(***************************************************************************)
(* C6 - data_already_exist: when the query runs, the result is true        *)
(* exactly when the table exists and holds a row whose trending_date       *)
(* begins with '<year>-'; it is false without a table and false for the    *)
(* year None; the table is left as it was.  A query that fails is the      *)
(* subject of C7.                                                          *)
(***************************************************************************)
\* the text begins with the decimal digits of the year followed by a dash
C6_BeginsWithYear(text, year) ==
    LET prefix == IntToStr(year) \o <<"-">>
    IN  Len(text) >= Len(prefix) /\ \A k \in 1..Len(prefix) : text[k] = prefix[k]

C6_HoldsRowOfYear(store, year) ==
    /\ store.exists
    /\ \E i \in 1..Len(store.rows) :
          /\ "trending_date" \in DOMAIN store.rows[i]
          /\ store.rows[i]["trending_date"].t = "str"
          /\ C6_BeginsWithYear(Chars(store.rows[i]["trending_date"].s), year)

C6_ExistsForYear ==
    (gwOut.called /\ ~gwIn.failed) =>
        /\ gwIn.year.none => ~gwOut.result
        /\ ~gwIn.store.exists => ~gwOut.result
        /\ ~gwIn.year.none => (gwOut.result <=> C6_HoldsRowOfYear(gwIn.store, gwIn.year.val))
        /\ db = gwIn.store

\* a table of two rows of which only the second is of the year asked for
C6_Witness ==
    /\ gwOut.called /\ ~gwIn.failed /\ gwOut.result
    /\ gwIn.year = Some(2020)
    /\ Len(db.rows) = 2
    /\ db.rows[1]["trending_date"] = D_2019_12_31
    /\ db.rows[2]["trending_date"] = D_2020_05_02

(***************************************************************************)
(* C7 - Failure policy of the persistence gateway: a failure in            *)
(* create_db_engine ends the process; a failure inside data_already_exist, *)
(* save_to_database, validate_data or export_db_to_csv becomes a false,    *)
(* empty or no-op result, and the orchestrator goes on to its next step.   *)
(***************************************************************************)
C7_FailurePolicy ==
    [][ /\ fault' = "create_db_engine" =>
              (pc' = "exited" /\ exitCode' = 1 /\ db' = db)
        /\ fault' = "data_already_exist" =>
              (pc' = "load" /\ exitCode' = Running /\ db' = db)
        /\ fault' = "save_to_database" =>
              (pc' = "loop" /\ exitCode' = Running /\ db' = db)
        /\ fault' = "validate_data" =>
              (pc' = "export" /\ exitCode' = Running /\ db' = db /\ report'.shown = 0)
        /\ fault' = "export_db_to_csv" =>
              (pc' = "done" /\ exitCode' = 0 /\ db' = db /\ export' = export) ]_vars

\* the save of the first entry has just failed: nothing was written, the run
\* is alive and the next entry waits in the listing
C7_Witness ==
    /\ fault = "save_to_database"
    /\ pc = "loop"
    /\ exitCode = Running
    /\ listing /= <<>>
    /\ ~db.exists
    /\ terminal[cur.filename] = "INGESTED"

(***************************************************************************)
(* C8 - Exit codes of a run: 2 when the command line does not parse;       *)
(* otherwise 1 when the data directory is missing or the storage cannot be *)
(* created or connected to, and 0 on normal completion.                    *)
(***************************************************************************)
C8_ExitCodes ==
    Ended =>
        /\ parse_arguments(argvOk) = "exit2" => exitCode = 2
        /\ (argvOk /\ pc = "done") => exitCode = 0
        /\ (argvOk /\ fault = "create_db_engine") => exitCode = 1
        /\ (argvOk /\ fault = "none" /\ pc = "exited" /\ dir = NoDir) => exitCode = 1

(***************************************************************************)
(* C9 - export_db_to_csv: when the read and the write succeed and the      *)
(* table exists with rows, the artifact after the call holds exactly the   *)
(* rows of the table, in their order, with every column, in place of any   *)
(* earlier export; when the table is empty or absent the artifact is left  *)
(* as it was.  The table is unchanged in both cases.  A call that fails is *)
(* the subject of C7.                                                      *)
(***************************************************************************)
\* the text of a stored value in a CSV field
C9_FieldOf(cell) ==
    IF cell.t = "nan" THEN <<>>
    ELSE IF cell.t = "int" THEN IntToStr(cell.n)
    ELSE Chars(cell.s)

C9_Snapshot(artifact, store) ==
    /\ artifact.exists
    /\ artifact.cols = store.cols
    /\ Len(artifact.lines) = Len(store.rows)
    /\ \A i \in 1..Len(store.rows) : \A c \in store.cols :
          Chars(artifact.lines[i][c]) = C9_FieldOf(store.rows[i][c])

C9_Export ==
    [][(pc = "export" /\ fault' = "none") =>
          /\ db' = db
          /\ IF db.exists /\ db.rows /= <<>>
             THEN C9_Snapshot(export', db)
             ELSE export' = export]_vars

\* an earlier export of one row was replaced by the three rows of the table
C9_Witness ==
    /\ pc = "done"
    /\ fault = "none"
    /\ run = 1
    /\ Len(db.rows) = 3
    /\ Len(export.lines) = 3
    /\ export.lines[1]["videos_count"] = "7"
    /\ export.lines[3]["trending_date"] = "2020-05-02"

(***************************************************************************)
(* C10 - Per-file routing: when a run that entered the loop has ended,     *)
(* every entry whose name matches 'trending_by_time_<4 digits>.csv' has    *)
(* reached one of the five terminal states; save_to_database was invoked   *)
(* only for entries that reached INGESTED, after a non-empty load; and     *)
(* entries whose name does not match were neither loaded nor saved.        *)
(***************************************************************************)
TerminalStates ==
    { "SKIPPED_NO_YEAR", "SKIPPED_DUPLICATE", "SKIPPED_EMPTY_LOAD",
      "SKIPPED_EMPTY_NORMALIZED", "INGESTED" }

C10_LoopEntered == Ended /\ dir /= NoDir /\ fault /= "create_db_engine"

C10_Routing ==
    C10_LoopEntered =>
        \A n \in Entries(dir) :
            /\ Discovered(n) => terminal[n] \in TerminalStates
            /\ <<"save_to_database", n>> \in calls =>
                  /\ terminal[n] = "INGESTED"
                  /\ <<"load_data", n>> \in calls
                  /\ ~IsEmpty(load_data(ContentOf(dir[n])))
            /\ ~Discovered(n) =>
                  /\ <<"load_data", n>> \notin calls
                  /\ <<"save_to_database", n>> \notin calls

(***************************************************************************)
(* C11 - Aggregate outcome flag: processed_any_file becomes true exactly   *)
(* on a step of the loop that appends rows to the table, so that at the    *)
(* end of the loop it is true if and only if rows of at least one file     *)
(* were appended during the run; the summary reports 'no new file          *)
(* processed' exactly when the flag is false.                              *)
(***************************************************************************)
C11_OutcomeFlag ==
    [][/\ pc \in {"loop", "exists", "load", "preprocess", "save"} =>
             (processed_any_file' <=> (processed_any_file \/ db'.rows /= db.rows))
       /\ (pc = "loop" /\ pc' = "validate") =>
             (summary' = "no_new_file_processed" <=> ~processed_any_file)]_vars

(***************************************************************************)
(* C12 - Sequential, per-file durable ingestion: while an entry is being   *)
(* carried through the existence check, load, normalization and append, no *)
(* other entry is taken from the listing; every step leaves the rows       *)
(* already in the table in place and unmodified; the table grows only in   *)
(* the append step of the entry in progress, and then by all the rows of   *)
(* that file as loaded and normalized, after the rows already there; and   *)
(* an append that does not fail on a table whose columns hold those of the *)
(* file does write them.  Hence at every point of a run the table is its   *)
(* initial content followed, in processing order, by the rows of the files *)
(* whose append succeeded so far.                                          *)
(***************************************************************************)
C12_IsPrefix(a, b) == Len(a) <= Len(b) /\ SubSeq(b, 1, Len(a)) = a

\* the rows of the file of an entry, loaded and normalized
C12_FileRows(filename) ==
    preprocess_data(load_data(ContentOf(dir[filename])), 5, pandas).df.rows

C12_InProgress == pc \in {"exists", "load", "preprocess", "save"}

C13_Normalized == {"trending_date", "videos_count"}

C13_Frame ==
    (ppOut.called /\ ~ppOut.raised) =>
        /\ ppOut.df.cols = ppIn.cols
        /\ Len(ppOut.df.rows) = Len(ppIn.rows)
        /\ \A i \in 1..Len(ppIn.rows) : \A c \in ppIn.cols \ C13_Normalized :
              ppOut.df.rows[i][c] = ppIn.rows[i][c]
        /\ IsEmpty(ppIn) => ppOut.df = ppIn
        /\ \E build \in PandasBuilds : \A threshold \in Thresholds :
              preprocess_data(ppIn, threshold, build).df = ppOut.df

\* both normalized columns were rewritten and the titles stayed in their rows
C13_Witness ==
    /\ ppIn = FrameExample
    /\ ppOut.called
    /\ ~ppOut.raised
    /\ ppOut.df.rows[1]["trending_date"] = Str("2020-05-01")
    /\ ppOut.df.rows[2]["videos_count"] = IntV(0)
    /\ ppOut.df.rows[2]["title"] = Str("x")

(***************************************************************************)
(* C14 - In the orchestrator an entry accepted by the discovery filter     *)
(* ends in no state other than SKIPPED_DUPLICATE, SKIPPED_EMPTY_LOAD or    *)
(* INGESTED: the year of an accepted name is always found, by the primary  *)
(* pattern, so SKIPPED_NO_YEAR is never reached, and preprocess_data       *)
(* returns as many rows as it was given, so SKIPPED_EMPTY_NORMALIZED is    *)
(* never reached.  An entry the filter rejects is ignored.                 *)
(***************************************************************************)
C14_Reachable ==
    \A n \in Names :
        /\ terminal[n] \notin {"SKIPPED_NO_YEAR", "SKIPPED_EMPTY_NORMALIZED"}
        /\ Discovered(n) =>
              /\ terminal[n] /= "IGNORED"
              /\ YearSearch(PathOf(n)) /= <<>>
              /\ extract_year_from_path(PathOf(n)) = Some(DecValue(YearSearch(PathOf(n))))
        /\ (Discovered(n) /\ Ended /\ terminal[n] \notin {"NONE", "YEAR_EXTRACTED"}) =>
              terminal[n] \in {"SKIPPED_DUPLICATE", "SKIPPED_EMPTY_LOAD", "INGESTED"}
        /\ ~Discovered(n) => terminal[n] \in {"NONE", "IGNORED"}

\* a run that ended with one entry in each reachable terminal state
C14_Witness ==
    /\ pc = "done"
    /\ run = 1
    /\ terminal[File2019] = "SKIPPED_DUPLICATE"
    /\ terminal[File2020] = "INGESTED"
    /\ terminal[FileOther] = "IGNORED"

=============================================================================
